---- MODULE Spec2Model ----
(***************************************************************************)
(* Model of the backtest core of indicator_validation.py: the stateful     *)
(* BacktestEngine (construction, execute_trade, calculate_metrics) and the *)
(* loop that feeds it a (date, price, signal) stream.                      *)
(*                                                                         *)
(* Number representation.  The program computes with Python floats; the    *)
(* model computes with exact rationals <<n, d>> (d > 0, lowest terms), so  *)
(* float rounding is not modelled.  Quantities that the program only       *)
(* compares with fixed thresholds are scaled integers:                     *)
(*   signal   in tenths   (15 is the program's 1.5)                        *)
(*   position in tenths   (6 is the program's 0.6, 10 is 1.0)              *)
(*   price    in tenths   (1331 is the program's 133.1)                    *)
(* Only price ratios enter the arithmetic, so the price unit is immaterial.*)
(***************************************************************************)
EXTENDS Integers, Sequences, FiniteSets, TLC

\* engines: the BacktestEngine instances; stream: the rows handed to the
\* engine of the current run; calc: the function call in progress outside
\* the engine (its arguments and, once it returned, its result).
VARIABLES engines, stream, calc

vars == <<engines, stream, calc>>

\* No call in progress.
Idle == [op |-> "idle"]

(* ------------------------------ bounds -------------------------------- *)

\* Longest stream fed to an engine.
MaxSteps == 3

\* Timestamps are drawn from 1..MaxDate, in any order.
MaxDate == 2

\* Longest stream of the buy-band scenario.
MaxScenarioSteps == 4

\* Backtest runs started by main (the indicators, then the combined run).
MaxRuns == 2

\* Rows of the frame of one run of main.
MaxRunSteps == 2

\* Observations in a pair of label sequences handed to the scorers.
MaxSamples == 4

\* Largest bin label in those sequences.
MaxLabel == 1

\* Horizons in the list handed to a horizon scan.
MaxHorizons == 2

\* Rows fed to an engine before its metrics are calculated.
MaxCurve == 3

\* Timestamps of the series to align are drawn from 1..MaxStamp.
MaxStamp == 2

\* Largest retry argument of fetch_metric_safe.
MaxRetry == 3

\* Observations in a pair of undiscretized sequences.
MaxRaw == 3

\* BacktestEngine.__init__'s default initial_capital.
DefaultInitialCapital == 10000

Dates == 1..MaxDate

\* Prices of the general streams (100.0 and 110.0).
Prices == {1000, 1100}

\* One signal in every band of execute_trade and on every band edge
\* (-2.0, -1.5, -0.5, 0.5, 1.5, 2.0).
Signals == {-20, -15, -5, 5, 15, 20}

\* The scenario's prices 100, 110, 121, 133.1.
ScenarioPrices == {1000, 1100, 1210, 1331}

\* Signals of the buy band 0.5 < s <= 1.5, its upper edge included.
BuySignals == {6, 10, 15}

\* Signals of the replayed streams: a sell, a neutral and a strong buy.
ReplaySignals == {-15, 5, 20}

\* Signals of the runs of main: a sell (-1) and a strong buy (+2).
MainSignals == {-10, 20}

Last(s) == s[Len(s)]

(* ------------------------- exact rationals ---------------------------- *)

RECURSIVE GCD(_, _)
GCD(a, b) == IF b = 0 THEN a ELSE GCD(b, a % b)

Abs(a) == IF a < 0 THEN -a ELSE a

\* n/d in lowest terms with a positive denominator (d # 0).
Rat(n, d) ==
    LET g == GCD(Abs(n), Abs(d))
        s == IF d < 0 THEN -1 ELSE 1
    IN  <<s * (n \div g), s * (d \div g)>>

RInt(n) == <<n, 1>>

\* x * y, cross-cancelled before multiplying.
RMul(x, y) ==
    LET g1 == GCD(Abs(x[1]), y[2])
        g2 == GCD(Abs(y[1]), x[2])
    IN  IF x[1] = 0 \/ y[1] = 0 THEN <<0, 1>>
        ELSE <<(x[1] \div g1) * (y[1] \div g2), (x[2] \div g2) * (y[2] \div g1)>>

RDiv(x, y) == RMul(x, Rat(y[2], y[1]))

RAdd(x, y) == Rat(x[1] * y[2] + y[1] * x[2], x[2] * y[2])

RSub(x, y) == Rat(x[1] * y[2] - y[1] * x[2], x[2] * y[2])

RLess(x, y) == x[1] * y[2] < y[1] * x[2]

(* --------------------------- BacktestEngine --------------------------- *)

\* Mutant: the engine starts fully invested.
BacktestEngineInvested(initial_capital) ==
    [initial_capital |-> initial_capital,
     capital         |-> initial_capital,
     position        |-> 10,
     trades          |-> <<>>,
     equity_curve    |-> <<>>]

\* BacktestEngine.__init__
BacktestEngine(initial_capital) ==
    [initial_capital |-> initial_capital,
     capital         |-> initial_capital,
     position        |-> 0,
     trades          |-> <<>>,
     equity_curve    |-> <<>>]

\* Mutant: a buy or sell moves the position by position_size (0.1) towards
\* the band's target instead of jumping to it.
TargetPositionStepwise(signal, position) ==
    LET target == IF signal > 15 THEN 10
                  ELSE IF signal > 5 THEN 6
                  ELSE IF signal < -15 THEN 0
                  ELSE IF signal < -5 THEN 3
                  ELSE position
    IN  IF target > position THEN position + 1
        ELSE IF target < position THEN position - 1
        ELSE position

\* Mutant: the band edges are inclusive (>= 1.5, >= 0.5, <= -1.5, <= -0.5).
TargetPositionInclusiveEdges(signal, position) ==
    IF signal >= 15 THEN 10
    ELSE IF signal >= 5 THEN 6
    ELSE IF signal <= -15 THEN 0
    ELSE IF signal <= -5 THEN 3
    ELSE position

\* execute_trade: the band of the signal decides the target position.
TargetPosition(signal, position) ==
    IF signal > 15 THEN 10
    ELSE IF signal > 5 THEN 6
    ELSE IF signal < -15 THEN 0
    ELSE IF signal < -5 THEN 3
    ELSE position

\* Mutant: a move to the sell band's target (0.3) is logged as a SELL.
TradeTypeSellBandSells(target_position, position) ==
    IF target_position = 3 /\ position # 3 THEN "SELL"
    ELSE IF target_position > position THEN "BUY"
    ELSE IF target_position < position THEN "SELL"
    ELSE "HOLD"

\* Mutant: an unchanged target is logged as a BUY.
TradeTypeNoHold(target_position, position) ==
    IF target_position >= position THEN "BUY"
    ELSE "SELL"

\* execute_trade: the type written into the trade.
TradeType(target_position, position) ==
    IF target_position > position THEN "BUY"
    ELSE IF target_position < position THEN "SELL"
    ELSE "HOLD"

\* execute_trade: the position after the adjustment; every branch that
\* changes self.position assigns target_position, the HOLD branch leaves it.
PositionAfter(target_position, position) ==
    IF target_position > position THEN target_position
    ELSE IF target_position < position THEN target_position
    ELSE position

\* Mutant: the price ratio is applied where the price change belongs.
CapitalAfterPriceRatio(capital, position, last_price, price) ==
    RMul(capital,
         RAdd(RInt(1), RMul(Rat(position, 10), Rat(price, last_price))))

\* Mutant: the return is not scaled by the position.
CapitalAfterUnscaled(capital, position, last_price, price) ==
    LET price_change == Rat(price - last_price, last_price)
    IN  RMul(capital, RAdd(RInt(1), price_change))

\* execute_trade: price_change = (price - last_price) / last_price and
\* capital * (1 + position * price_change); position is in tenths.
CapitalAfter(capital, position, last_price, price) ==
    LET price_change == Rat(price - last_price, last_price)
    IN  RMul(capital, RAdd(RInt(1), RMul(Rat(position, 10), price_change)))

\* execute_trade: the trade dictionary, built from self.capital as it is
\* when the method is entered and never updated afterwards except for its
\* type and position.
TradeRecord(date, price, signal, type, position, capital) ==
    [date     |-> date,
     price    |-> price,
     signal   |-> signal,
     type     |-> type,
     position |-> position,
     capital  |-> capital,
     pnl      |-> 0]

\* Mutant: the trade log is one list shared by all engines.
AppendTradeShared(self, trade) == Append(engines[1].trades, trade)

\* Mutant: only trades that change the position are logged.
AppendTradeUnlessHold(self, trade) ==
    IF trade.type = "HOLD" THEN engines[self].trades
    ELSE Append(engines[self].trades, trade)

\* execute_trade: self.trades.append(trade).
AppendTrade(self, trade) == Append(engines[self].trades, trade)

\* execute_trade: the whole method, as the new state of engine self.
execute_trade(self, date, price, signal) ==
    LET e               == engines[self]
        target_position == TargetPosition(signal, e.position)
        position        == PositionAfter(target_position, e.position)
        trade           == TradeRecord(date, price, signal,
                                       TradeType(target_position, e.position),
                                       position, e.capital)
        capital         ==
            IF Len(e.equity_curve) > 0
            THEN CapitalAfter(e.capital, position,
                              e.equity_curve[Len(e.equity_curve)].price, price)
            ELSE e.capital
    IN  [e EXCEPT !.position     = position,
                  !.trades       = AppendTrade(self, trade),
                  !.capital      = capital,
                  !.equity_curve = Append(@, [date     |-> date,
                                              price    |-> price,
                                              capital  |-> capital,
                                              position |-> position,
                                              signal   |-> signal])]

\* calculate_metrics: strategy_return, reported as total_return.
total_return(self) ==
    RMul(RSub(RDiv(engines[self].capital, engines[self].initial_capital),
              RInt(1)),
         RInt(100))

(* ------------------------------ actions ------------------------------- *)

\* The backtest loop of main: one row of the frame is handed to engine 1
\* and joins the stream fed so far.
ExecuteTrade(date, price, signal) ==
    /\ engines' = [engines EXCEPT ![1] = execute_trade(1, date, price, signal)]
    /\ stream' = Append(stream, [date |-> date, price |-> price, signal |-> signal])
    /\ UNCHANGED calc

\* A second engine is handed the next row of the same stream.
Replay ==
    LET k == Len(engines[2].equity_curve)
    IN  /\ k < Len(stream)
        /\ engines' = [engines EXCEPT
               ![2] = execute_trade(2, stream[k + 1].date, stream[k + 1].price,
                                    stream[k + 1].signal)]
        /\ UNCHANGED <<stream, calc>>

\* The price moves by 0 or by 10 percent up or down from one row to the next.
OneRung(last_price, price) ==
    \/ price = last_price
    \/ 10 * price = 11 * last_price
    \/ 11 * price = 10 * last_price

Init ==
    /\ engines = [i \in {1} |-> BacktestEngine(RInt(DefaultInitialCapital))]
    /\ stream = <<>>
    /\ calc = Idle

Next == \E date \in Dates, price \in Prices, signal \in Signals :
            /\ Len(stream) < MaxSteps
            /\ ExecuteTrade(date, price, signal)

Spec == Init /\ [][Next]_vars

\* Streams of buy-band signals over the scenario's prices, one row a day.
NextScenario == \E price \in ScenarioPrices, signal \in BuySignals :
                    /\ Len(stream) < MaxScenarioSteps
                    /\ stream # <<>> => OneRung(Last(stream).price, price)
                    /\ ExecuteTrade(Len(stream) + 1, price, signal)

SpecScenario == Init /\ [][NextScenario]_vars

\* Two engines constructed alike; engine 2 replays the stream of engine 1.
InitReplay ==
    /\ engines = [i \in {1, 2} |-> BacktestEngine(RInt(DefaultInitialCapital))]
    /\ stream = <<>>
    /\ calc = Idle

Feed == \E date \in Dates, price \in Prices, signal \in ReplaySignals :
            /\ Len(stream) < MaxSteps
            /\ ExecuteTrade(date, price, signal)

NextReplay == Feed \/ Replay

SpecReplay == InitReplay /\ [][NextReplay]_vars

(* ------------------------- double precision --------------------------- *)
(* capital, price and price_change are IEEE-754 doubles.  The streams      *)
(* above keep prices within a factor of 1.331 of each other, where the     *)
(* exact rationals give the sign and size of every result.  The streams    *)
(* of this section hold prices that are powers of two, 2^k, written as k,  *)
(* and fall by a factor of 2^60 or not at all from one row to the next.    *)
(* For such a fall price - last_price is 2^k - 2^j with k <= j - 54, which *)
(* is nearer to -2^j than to any other double: the subtraction returns     *)
(* -last_price and price_change is exactly -1.0.                           *)
(***************************************************************************)

\* A difference of exponents of 54 or more leaves no bit of the smaller
\* operand in a double's 53-bit significand (1 - 2^-54 rounds to 1).
AbsorbedBelow == 54

\* log2 of the prices of the collapsing streams: 1.0, 2^-60, 2^-120.
PriceExponents == {0, -60, -120}

\* price_change = (price - last_price) / last_price for price = 2^k and
\* last_price = 2^last_k, where k = last_k or k <= last_k - AbsorbedBelow
\* (NextCollapse admits no other row).
price_change_pow2(last_k, k) ==
    IF k = last_k THEN RInt(0)
    ELSE RInt(-1)

\* capital * (1 + position * price_change); 1 + 1.0 * -1.0 is 0.0, and
\* 1 + 0.6 * -1.0, 1 + 0.3 * -1.0 are positive.
CapitalAfterPow2(capital, position, last_k, k) ==
    RMul(capital,
         RAdd(RInt(1), RMul(Rat(position, 10), price_change_pow2(last_k, k))))

\* execute_trade on a price 2^k: the same method, with the double-precision
\* price change.
execute_trade_pow2(self, date, k, signal) ==
    LET e               == engines[self]
        target_position == TargetPosition(signal, e.position)
        position        == PositionAfter(target_position, e.position)
        trade           == TradeRecord(date, k, signal,
                                       TradeType(target_position, e.position),
                                       position, e.capital)
        capital         ==
            IF Len(e.equity_curve) > 0
            THEN CapitalAfterPow2(e.capital, position,
                                  e.equity_curve[Len(e.equity_curve)].price, k)
            ELSE e.capital
    IN  [e EXCEPT !.position     = position,
                  !.trades       = AppendTrade(self, trade),
                  !.capital      = capital,
                  !.equity_curve = Append(@, [date     |-> date,
                                              price    |-> k,
                                              capital  |-> capital,
                                              position |-> position,
                                              signal   |-> signal])]

\* One row of a collapsing stream is handed to engine 1; the price fields
\* of the stream and of the logs hold the exponent k.
ExecuteTradePow2(date, k, signal) ==
    /\ engines' = [engines EXCEPT ![1] = execute_trade_pow2(1, date, k, signal)]
    /\ stream' = Append(stream, [date |-> date, price |-> k, signal |-> signal])
    /\ UNCHANGED calc

NextCollapse == \E k \in PriceExponents, signal \in Signals :
                    /\ Len(stream) < MaxSteps
                    /\ stream # <<>> =>
                           \/ k = Last(stream).price
                           \/ k <= Last(stream).price - AbsorbedBelow
                    /\ ExecuteTradePow2(Len(stream) + 1, k, signal)

SpecCollapse == Init /\ [][NextCollapse]_vars

(* ------------------------------- main --------------------------------- *)

\* Mutant: one engine is constructed before the loop and every run uses it.
NewRunEngineReused ==
    IF engines = <<>> THEN BacktestEngine(RInt(DefaultInitialCapital))
    ELSE Last(engines)

\* main: backtest = BacktestEngine() at the start of each indicator's run,
\* combined_backtest = BacktestEngine() for the combined run.
NewRunEngine == BacktestEngine(RInt(DefaultInitialCapital))

\* main: a run starts; its engine is bound and its frame is iterated from
\* the first row.  The engines of the finished runs stay as they were left.
StartRun ==
    /\ Len(engines) < MaxRuns
    /\ engines' = Append(engines, NewRunEngine)
    /\ stream' = <<>>
    /\ UNCHANGED calc

\* main: the next row of the current run's frame goes to the current run's
\* engine, one row a day.
RunRow ==
    \E price \in Prices, signal \in MainSignals :
        /\ engines # <<>>
        /\ Len(stream) < MaxRunSteps
        /\ engines' = [engines EXCEPT
               ![Len(engines)] = execute_trade(Len(engines), Len(stream) + 1,
                                               price, signal)]
        /\ stream' = Append(stream, [date   |-> Len(stream) + 1,
                                     price  |-> price,
                                     signal |-> signal])
        /\ UNCHANGED calc

InitMain ==
    /\ engines = <<>>
    /\ stream = <<>>
    /\ calc = Idle

NextMain == StartRun \/ RunRow

SpecMain == InitMain /\ [][NextMain]_vars

(* -------------------------- SignalGenerator --------------------------- *)

\* SignalGenerator.__init__: self.thresholds, in hundredths (95 is 0.95).
thresholds ==
    [SOPR  |-> [strong_buy |-> 95, buy |-> 98, neutral_low |-> 100,
                neutral_high |-> 102, sell |-> 105, strong_sell |-> 108],
     MVRV  |-> [strong_buy |-> -50, buy |-> 0, neutral_low |-> 100,
                neutral_high |-> 200, sell |-> 300, strong_sell |-> 400],
     NUPL  |-> [strong_buy |-> 0, buy |-> 25, neutral_low |-> 50,
                neutral_high |-> 65, sell |-> 75, strong_sell |-> 85],
     NVT   |-> [strong_buy |-> 4000, buy |-> 5000, neutral_low |-> 7000,
                neutral_high |-> 9000, sell |-> 10000, strong_sell |-> 12000],
     Puell |-> [strong_buy |-> 30, buy |-> 50, neutral_low |-> 100,
                neutral_high |-> 200, sell |-> 300, strong_sell |-> 400]]

\* Indicator names handed to the generator: the registered ones and one
\* that has no threshold table.
IndicatorNames == DOMAIN thresholds \cup {"RSI"}

\* Values handed to generate_signal, in hundredths: every breakpoint of
\* every table, and the values just below and just above it.
SignalValues ==
    UNION {{T[k] - 1, T[k], T[k] + 1} :
              k \in {"strong_buy", "buy", "neutral_low", "neutral_high",
                     "sell", "strong_sell"},
              T \in {thresholds[n] : n \in DOMAIN thresholds}}

\* Mutant: the NVT branch gives the reversed signals.
nvt_signal_reversed(value, T) ==
    IF value <= T.strong_buy THEN -2
    ELSE IF value <= T.buy THEN -1
    ELSE IF value <= T.neutral_low THEN 0
    ELSE IF value <= T.neutral_high THEN 0
    ELSE IF value <= T.sell THEN 1
    ELSE 2

\* generate_signal: the branch taken when indicator == 'NVT'.
nvt_signal(value, T) ==
    IF value <= T.strong_buy THEN 2
    ELSE IF value <= T.buy THEN 1
    ELSE IF value <= T.neutral_low THEN 0
    ELSE IF value <= T.neutral_high THEN 0
    ELSE IF value <= T.sell THEN -1
    ELSE -2

\* Mutant: the sell zone reaches up to the strong_sell breakpoint.
normal_signal_sell_to_strong_sell(value, T) ==
    IF value <= T.strong_buy THEN 2
    ELSE IF value <= T.buy THEN 1
    ELSE IF value <= T.neutral_low THEN 0
    ELSE IF value <= T.neutral_high THEN 0
    ELSE IF value <= T.strong_sell THEN -1
    ELSE -2

\* generate_signal: the branch of every other registered indicator.
normal_signal(value, T) ==
    IF value <= T.strong_buy THEN 2
    ELSE IF value <= T.buy THEN 1
    ELSE IF value <= T.neutral_low THEN 0
    ELSE IF value <= T.neutral_high THEN 0
    ELSE IF value <= T.sell THEN -1
    ELSE -2

\* Mutant: a name without a table is looked up in the SOPR table.
generate_signal_default_table(value, indicator) ==
    IF indicator = "NVT" THEN nvt_signal(value, thresholds[indicator])
    ELSE IF indicator \in DOMAIN thresholds
         THEN normal_signal(value, thresholds[indicator])
         ELSE normal_signal(value, thresholds["SOPR"])

\* SignalGenerator.generate_signal
generate_signal(value, indicator) ==
    IF indicator \notin DOMAIN thresholds THEN 0
    ELSE IF indicator = "NVT" THEN nvt_signal(value, thresholds[indicator])
    ELSE normal_signal(value, thresholds[indicator])

\* A caller is about to call generate_signal(value, indicator).
InitSignal ==
    /\ engines = <<>>
    /\ stream = <<>>
    /\ \E value \in SignalValues, indicator \in IndicatorNames :
           calc = [op |-> "generate_signal", state |-> "called",
                   value |-> value, indicator |-> indicator]

\* generate_signal returns.
GenerateSignal ==
    /\ calc.op = "generate_signal" /\ calc.state = "called"
    /\ calc' = [op |-> "generate_signal", state |-> "returned",
                value |-> calc.value, indicator |-> calc.indicator,
                result |-> generate_signal(calc.value, calc.indicator)]
    /\ UNCHANGED <<engines, stream>>

SpecSignal == InitSignal /\ [][GenerateSignal]_vars

\* generate_composite_signal: weights, in hundredths (35 is 0.35).
weights == [MVRV |-> 35, NUPL |-> 25, SOPR |-> 20, NVT |-> 10, Puell |-> 10]

\* generate_composite_signal: the loop over signals.items(), summing
\* signal * weight (field composite) and weight (field total_weight) over
\* the names that have a weight.
RECURSIVE composite_loop(_, _)
composite_loop(signals, names) ==
    IF names = {} THEN [composite |-> 0, total_weight |-> 0]
    ELSE LET indicator == CHOOSE n \in names : TRUE
             rest      == composite_loop(signals, names \ {indicator})
         IN  IF indicator \in DOMAIN weights
             THEN [composite    |-> rest.composite
                                    + signals[indicator] * weights[indicator],
                   total_weight |-> rest.total_weight + weights[indicator]]
             ELSE rest

\* Mutant: the sum is divided by the total of all weights (1.0), not by the
\* weights of the indicators present.
generate_composite_signal_fixed_total(signals) ==
    LET sums == composite_loop(signals, DOMAIN signals)
    IN  IF sums.total_weight > 0 THEN Rat(sums.composite, 100)
        ELSE RInt(0)

\* SignalGenerator.generate_composite_signal
generate_composite_signal(signals) ==
    LET sums == composite_loop(signals, DOMAIN signals)
    IN  IF sums.total_weight > 0 THEN Rat(sums.composite, sums.total_weight)
        ELSE RInt(0)

\* The signals dictionaries: any subset of the names, each with a signal of
\* generate_signal.
SignalDicts ==
    UNION {[present -> -2..2] : present \in SUBSET IndicatorNames}

\* A caller is about to call generate_composite_signal(signals).
InitComposite ==
    /\ engines = <<>>
    /\ stream = <<>>
    /\ \E signals \in SignalDicts :
           calc = [op |-> "generate_composite_signal", state |-> "called",
                   signals |-> signals]

\* generate_composite_signal returns.
GenerateCompositeSignal ==
    /\ calc.op = "generate_composite_signal" /\ calc.state = "called"
    /\ calc' = [op |-> "generate_composite_signal", state |-> "returned",
                signals |-> calc.signals,
                result |-> generate_composite_signal(calc.signals)]
    /\ UNCHANGED <<engines, stream>>

SpecComposite == InitComposite /\ [][GenerateCompositeSignal]_vars

(* --------------------------- entropy scoring -------------------------- *)
(* The scorers work on two equally long sequences of bin labels, the       *)
(* output of pd.qcut(..., labels=False, duplicates='drop'): labels        *)
(* 0..k-1, drawn here with every one of them occurring.  The minimum-row   *)
(* checks sit before the discretization and are modelled with the horizon  *)
(* scan; the sequences here are short, an entropy depends on the           *)
(* proportions only.                                                       *)
(*                                                                         *)
(* Entropy values.  An entropy of a sequence of n labels is kept as        *)
(* n times its value, as a record [m, e]:                                  *)
(*   m  the part without the 1e-10 offset, in millionths (of a bit for     *)
(*      np.log2, of a nat for scipy.stats.entropy), from a table of        *)
(*      logarithms that is additive (log 6 = log 2 + log 3), so that       *)
(*      terms that cancel exactly cancel in the table;                     *)
(*   e  the first-order effect of the offset in                            *)
(*      -sum(p * np.log2(p + 1e-10)): p * log2(p + 1e-10) is               *)
(*      p * log2(p) + 1e-10/ln 2 up to terms below 1e-19, so each          *)
(*      observed label contributes -1 in units of 1e-10/ln 2 (1.44e-10).   *)
(* Values compare by m, then by e: a unit of e is far below a unit of m.   *)
(***************************************************************************)

\* n_bins = 10 of the multi-horizon scorer (bins=10 of calculate_information_gain).
n_bins == 10

\* round(1e6 * log2(m)) for m = 1..8, additive over products.
Log2Micro == <<0, 1000000, 1584963, 2000000, 2321928, 2584963, 2807355, 3000000>>

\* round(1e6 * ln(m)) for m = 1..8, additive over products.
LnMicro == <<0, 693147, 1098612, 1386294, 1609438, 1791759, 1945910, 2079441>>

RECURSIVE SeqSum(_)
SeqSum(s) == IF s = <<>> THEN 0 ELSE s[1] + SeqSum(Tail(s))

\* np.sum(mask) for mask = labels == v.
Count(labels, v) == Cardinality({i \in DOMAIN labels : labels[i] = v})

\* values[mask] for mask = labels == v.
RECURSIVE Masked(_, _, _)
Masked(values, labels, v) ==
    IF values = <<>> THEN <<>>
    ELSE IF labels[1] = v
         THEN <<values[1]>> \o Masked(Tail(values), Tail(labels), v)
         ELSE Masked(Tail(values), Tail(labels), v)

\* Len(labels) times -sum(p * log p) over the observed labels, p = count/n:
\* n * log n - sum(count * log count).
NTimesEntropy(labels, Log) ==
    IF labels = <<>> THEN 0
    ELSE Len(labels) * Log[Len(labels)]
         - SeqSum([i \in 1..n_bins |->
                      IF Count(labels, i - 1) > 0
                      THEN Count(labels, i - 1) * Log[Count(labels, i - 1)]
                      ELSE 0])

Distinct(labels) == Cardinality({labels[i] : i \in DOMAIN labels})

EZero == [m |-> 0, e |-> 0]

EAdd(x, y) == [m |-> x.m + y.m, e |-> x.e + y.e]

ESub(x, y) == [m |-> x.m - y.m, e |-> x.e - y.e]

\* x > 0
EPositive(x) == x.m > 0 \/ (x.m = 0 /\ x.e > 0)

RECURSIVE ESum(_)
ESum(s) == IF s = <<>> THEN EZero ELSE EAdd(s[1], ESum(Tail(s)))

\* Python's max(0, x).
EMax0(x) == IF EPositive(x) THEN x ELSE EZero

\* Mutant: x / y without the guard; a zero denominator gives nan (<<0, 0>>).
RatioUnguarded(x, y) ==
    IF y.m = 0 THEN <<0, 0>> ELSE Rat(x.m, y.m)

\* x / y if y > 0 else 0.  The offset's share of a quotient is not kept.
Ratio(x, y) ==
    IF EPositive(y) THEN Rat(x.m, y.m) ELSE RInt(0)

\* -np.sum(probs * np.log2(probs + 1e-10)) for probs = value_counts(normalize=True).
log2_entropy(labels) ==
    [m |-> NTimesEntropy(labels, Log2Micro),
     e |-> -(Len(labels) * Distinct(labels))]

\* scipy.stats.entropy(np.bincount(labels) / len(labels)): natural
\* logarithm, zero counts contribute nothing.
scipy_entropy(labels) ==
    [m |-> NTimesEntropy(labels, LnMicro), e |-> 0]

\* InformationGainAnalyzer.calculate_information_gain, from the discretized
\* sequences on.  Every entropy of the result is n times its value.
calculate_information_gain(indicator_discrete, target_discrete) ==
    LET H_target  == log2_entropy(target_discrete)
        H_target_given_indicator ==
            ESum([i \in 1..n_bins |->
                     IF Count(indicator_discrete, i - 1) > 0
                     THEN log2_entropy(Masked(target_discrete,
                                              indicator_discrete, i - 1))
                     ELSE EZero])
        information_gain == EMax0(ESub(H_target, H_target_given_indicator))
        H_indicator == log2_entropy(indicator_discrete)
    IN  [information_gain      |-> information_gain,
         gain_ratio            |-> Ratio(information_gain, H_indicator),
         symmetric_uncertainty |->
             Ratio(EAdd(information_gain, information_gain),
                   EAdd(H_target, H_indicator)),
         target_entropy        |-> H_target,
         conditional_entropy   |-> H_target_given_indicator,
         indicator_entropy     |-> H_indicator,
         reduction_ratio       |-> Ratio(information_gain, H_target)]

\* calculate_information_gain_multi_horizon, one horizon, from the
\* discretized sequences to the scores (the correlation, computed from the
\* undiscretized columns, is left out).  Entropies are n times their value.
score_horizon(indicator_bins, price_bins) ==
    LET H_price == scipy_entropy(price_bins)
        H_conditional ==
            ESum([i \in 1..n_bins |->
                     IF Count(indicator_bins, i - 1) > 1
                     THEN scipy_entropy(Masked(price_bins, indicator_bins, i - 1))
                     ELSE EZero])
        ig == EMax0(ESub(H_price, H_conditional))
    IN  [information_gain    |-> ig,
         normalized_mi       |-> Ratio(ig, H_price),
         entropy_price       |-> H_price,
         entropy_conditional |-> H_conditional,
         reduction_ratio     |-> Ratio(ig, H_price)]

\* The label sequences pd.qcut can hand out for n observations.
QcutLabels(n) ==
    {labels \in [1..n -> 0..MaxLabel] :
        \E k \in 0..MaxLabel : {labels[i] : i \in 1..n} = 0..k}

\* A caller is about to score a pair of discretized sequences with one of
\* the two scorers.
InitScore ==
    /\ engines = <<>>
    /\ stream = <<>>
    /\ \E n \in 1..MaxSamples :
       \E X \in QcutLabels(n), Y \in QcutLabels(n) :
       \E op \in {"calculate_information_gain", "score_horizon"} :
           calc = [op |-> op, state |-> "called", X |-> X, Y |-> Y]

\* InformationGainAnalyzer.calculate_information_gain returns.
CalculateInformationGain ==
    /\ calc.op = "calculate_information_gain" /\ calc.state = "called"
    /\ calc' = [calc EXCEPT !.state = "returned"]
                 @@ [result |-> calculate_information_gain(calc.X, calc.Y)]
    /\ UNCHANGED <<engines, stream>>

\* The multi-horizon scorer has scored one horizon.
ScoreHorizon ==
    /\ calc.op = "score_horizon" /\ calc.state = "called"
    /\ calc' = [calc EXCEPT !.state = "returned"]
                 @@ [result |-> score_horizon(calc.X, calc.Y)]
    /\ UNCHANGED <<engines, stream>>

NextScore == CalculateInformationGain \/ ScoreHorizon

SpecScore == InitScore /\ [][NextScore]_vars

(* ---------------------------- discretization ------------------------- *)
(* pd.qcut(values, n_bins, labels=False, duplicates='drop') on a sequence  *)
(* of numbers, followed by the scoring above.  The sequences hold at       *)
(* least two different values, so that at least one bin is left (a         *)
(* constant sequence leaves a single edge and no bin).                     *)
(***************************************************************************)

RawValues == {0, 1, 2}

\* The q = i/k quantile of an ascending sequence, by linear interpolation
\* between the two nearest ranks (the default of Series.quantile).
quantile(sorted, i, k) ==
    LET below == (i * (Len(sorted) - 1)) \div k
        part  == (i * (Len(sorted) - 1)) % k
    IN  IF part = 0 THEN RInt(sorted[below + 1])
        ELSE RAdd(RInt(sorted[below + 1]),
                  RMul(Rat(part, k),
                       RInt(sorted[below + 2] - sorted[below + 1])))

\* The bin edges qcut keeps: the k + 1 quantiles, duplicates dropped.
qcut_edges(values, k) ==
    LET sorted == SortSeq(values, LAMBDA a, b : a < b)
    IN  {quantile(sorted, i, k) : i \in 0..k}

\* The bins actually used.
qcut_bins(values, k) == Cardinality(qcut_edges(values, k)) - 1

\* The labels: value x lies in bin j when exactly j + 1 edges are below it;
\* the lowest edge belongs to bin 0 (include_lowest).
qcut(values, k) ==
    [i \in DOMAIN values |->
        LET below == Cardinality({e \in qcut_edges(values, k) :
                                     RLess(e, RInt(values[i]))})
        IN  IF below = 0 THEN 0 ELSE below - 1]

\* The keys of the dict calculate_information_gain returns.
information_gain_keys ==
    {"information_gain", "gain_ratio", "symmetric_uncertainty",
     "mutual_information_discrete", "normalized_mi_discrete",
     "target_entropy", "conditional_entropy", "indicator_entropy",
     "reduction_ratio"}

\* The keys of results[horizon] of the multi-horizon scan.
multi_horizon_keys ==
    {"information_gain", "normalized_mi", "correlation", "entropy_price",
     "entropy_conditional", "reduction_ratio", "sample_size"}

\* Sequences of numbers with at least two different values.
RawSequences(n) ==
    {values \in [1..n -> RawValues] : \E i, j \in 1..n : values[i] # values[j]}

\* A caller is about to discretize and score a pair of sequences.
InitDiscretize ==
    /\ engines = <<>>
    /\ stream = <<>>
    /\ \E n \in 2..MaxRaw :
       \E indicator \in RawSequences(n), target \in RawSequences(n) :
       \E op \in {"discretize_information_gain", "discretize_multi_horizon"} :
           calc = [op |-> op, state |-> "called",
                   indicator |-> indicator, target |-> target]

\* calculate_information_gain from the discretization to the returned dict;
\* nothing is printed on the way.
DiscretizeInformationGain ==
    /\ calc.op = "discretize_information_gain" /\ calc.state = "called"
    /\ calc' = [calc EXCEPT !.state = "returned"]
                 @@ [result |-> calculate_information_gain(
                                    qcut(calc.indicator, n_bins),
                                    qcut(calc.target, n_bins)),
                     keys |-> information_gain_keys,
                     printed |-> <<>>]
    /\ UNCHANGED <<engines, stream>>

\* The multi-horizon scan from the discretization to results[horizon];
\* nothing is printed on the way.
DiscretizeMultiHorizon ==
    /\ calc.op = "discretize_multi_horizon" /\ calc.state = "called"
    /\ calc' = [calc EXCEPT !.state = "returned"]
                 @@ [result |-> score_horizon(qcut(calc.indicator, n_bins),
                                              qcut(calc.target, n_bins)),
                     keys |-> multi_horizon_keys,
                     printed |-> <<>>]
    /\ UNCHANGED <<engines, stream>>

NextDiscretize == DiscretizeInformationGain \/ DiscretizeMultiHorizon

SpecDiscretize == InitDiscretize /\ [][NextDiscretize]_vars

(* ----------------------------- horizon scan --------------------------- *)
(* Two scans walk a list of horizons over the joined frame of an indicator *)
(* and the price: GlassnodeAdvancedAnalyzer                                *)
(* .calculate_information_gain_multi_horizon and InformationGainAnalyzer   *)
(* .analyze_predictive_information.  The frame is the price column of the  *)
(* N joined rows (the indicator column has a value in every joined row     *)
(* and plays no part in which rows are kept); a missing value (NaN) is     *)
(* <<0, 0>>.  The scores of a horizon depend on the data and are drawn     *)
(* from ScoreValues (information_gain stands for all of them: they are     *)
(* written to the result together); which rows are scored, and which       *)
(* horizons are in the result, is computed as the code computes it.  The   *)
(* result is the dict in insertion order, one record per key.              *)
(***************************************************************************)

\* if len(df) < 100 / if len(indicator_clean) < 100
MinRows == 100

\* if len(df) < 50, after the rows without a future price were dropped
MinScoredRows == 50

nan == <<0, 0>>

FrameSizes == {40, 99, 100, 109, 130, 160}

HorizonChoices == {1, 30, 60}

\* Price columns repeat one of these patterns.
PricePatterns == {<<100>>, <<100, 110, 100, 90>>}

ScoreValues == {0, 2}

PriceColumn(N, pattern) ==
    [t \in 1..N |-> RInt(pattern[((t - 1) % Len(pattern)) + 1])]

\* x / y - 1 in floating point: NaN in, NaN out.
RelativeChange(x, y) ==
    IF x = nan \/ y = nan THEN nan ELSE RSub(RDiv(x, y), RInt(1))

\* Series.shift(periods): row t takes the value of row t - periods.
shift(col, periods) ==
    [t \in 1..Len(col) |->
        IF t - periods \in 1..Len(col) THEN col[t - periods] ELSE nan]

\* Series.pct_change(periods)
pct_change(col, periods) ==
    [t \in 1..Len(col) |->
        IF t - periods \in 1..Len(col)
        THEN RelativeChange(col[t], col[t - periods])
        ELSE nan]

\* Series.fillna(0)
fillna0(col) == [t \in 1..Len(col) |-> IF col[t] = nan THEN RInt(0) ELSE col[t]]

\* The frame of one horizon of the multi-horizon scan before its dropna:
\* df['future_price'] = df['price'].shift(-horizon);
\* df['price_change'] = (df['future_price'] / df['price'] - 1).fillna(0)
horizon_frame(price, horizon) ==
    LET future_price == shift(price, -horizon)
        price_change ==
            fillna0([t \in 1..Len(price) |->
                        RelativeChange(future_price[t], price[t])])
    IN  [t \in 1..Len(price) |->
            [t |-> t, price |-> price[t], future_price |-> future_price[t],
             price_change |-> price_change[t]]]

\* Mutant: no row is dropped.
dropna_none(df) == df

\* DataFrame.dropna(): the rows without a missing value in any column.
dropna(df) ==
    SelectSeq(df, LAMBDA r : /\ r.price # nan
                             /\ r.future_price # nan
                             /\ r.price_change # nan)

\* Mutant: the second row check left out.
TooFewScoredNever(df) == FALSE

\* if len(df) < 50: continue
TooFewScored(df) == Len(df) < MinScoredRows

\* The rows (index, target) handed to the discretization.
Scored(df) == [i \in 1..Len(df) |-> <<df[i].t, df[i].price_change>>]

\* valid_mask of InformationGainAnalyzer.calculate_information_gain: the
\* rows whose target is not NaN, as (index, target).
valid_rows(target) ==
    LET rows == [t \in 1..Len(target) |-> <<t, target[t]>>]
    IN  SelectSeq(rows, LAMBDA r : r[2] # nan)

\* Lists of distinct horizons, in any order.
HorizonLists ==
    {hs \in UNION {[1..k -> HorizonChoices] : k \in 1..MaxHorizons} :
        \A i, j \in DOMAIN hs : i # j => hs[i] # hs[j]}

InitScan ==
    /\ engines = <<>>
    /\ stream = <<>>
    /\ \E N \in FrameSizes, pattern \in PricePatterns, hs \in HorizonLists :
       \E op \in {"calculate_information_gain_multi_horizon",
                  "analyze_predictive_information"} :
           calc = [op |-> op, state |-> "called", price |-> PriceColumn(N, pattern),
                   horizons |-> hs, i |-> 1, results |-> <<>>]

\* The loop moves on to the next horizon, or the scan returns.
Advance(results) ==
    calc' = [calc EXCEPT !.results = results,
                         !.i = @ + 1,
                         !.state = IF calc.i = Len(calc.horizons)
                                   THEN "returned" ELSE "called"]

\* One iteration of the loop of calculate_information_gain_multi_horizon.
ScanHorizon ==
    /\ calc.op = "calculate_information_gain_multi_horizon"
    /\ calc.state = "called"
    /\ LET horizon == calc.horizons[calc.i]
           df == dropna(horizon_frame(calc.price, horizon))
       IN  IF Len(calc.price) < MinRows \/ TooFewScored(df)
           THEN Advance(calc.results)
           ELSE \/ Advance(calc.results)      \* pd.qcut raised: continue
                \/ \E ig \in ScoreValues :
                       Advance(Append(calc.results,
                           [horizon |-> horizon,
                            information_gain |-> ig,
                            sample_size |-> Len(df),
                            scored |-> Scored(df)]))
    /\ UNCHANGED <<engines, stream>>

\* One iteration of the loop of analyze_predictive_information.
AnalyzeHorizon ==
    /\ calc.op = "analyze_predictive_information"
    /\ calc.state = "called"
    /\ LET horizon == calc.horizons[calc.i]
           future_return == shift(pct_change(calc.price, horizon), -horizon)
           clean == valid_rows(future_return)
       IN  IF Len(clean) < MinRows
           THEN \* calculate_information_gain returned {}: .get(..., 0)
                Advance(Append(calc.results,
                    [horizon |-> horizon, information_gain |-> 0,
                     scored |-> <<>>]))
           ELSE \E ig \in ScoreValues :
                    Advance(Append(calc.results,
                        [horizon |-> horizon, information_gain |-> ig,
                         scored |-> clean]))
    /\ UNCHANGED <<engines, stream>>

NextScan == ScanHorizon \/ AnalyzeHorizon

SpecScan == InitScan /\ [][NextScan]_vars

(* --------------------------- optimal horizon -------------------------- *)
(* find_optimal_horizon reads the result of the multi-horizon scan: a dict *)
(* in insertion order, here a sequence of records.  Scores are rationals;  *)
(* the correlation of a horizon is NaN when the indicator is constant over *)
(* the rows scored for it.                                                 *)
(***************************************************************************)

GainValues == {RInt(0), RInt(1)}

CorrelationValues == {Rat(-1, 2), Rat(1, 2), nan}

\* abs(x) of a float: abs(nan) is nan.
FAbs(x) == IF x = nan THEN nan ELSE <<Abs(x[1]), x[2]>>

\* np.argmax(values): the first index of the maximum; a NaN counts as the
\* maximum, so the first NaN if there is one.
argmax(values) ==
    IF \E i \in DOMAIN values : values[i] = nan
    THEN CHOOSE i \in DOMAIN values :
             /\ values[i] = nan
             /\ \A j \in 1..(i - 1) : values[j] # nan
    ELSE CHOOSE i \in DOMAIN values :
             /\ \A j \in DOMAIN values : ~RLess(values[i], values[j])
             /\ \A j \in 1..(i - 1) : RLess(values[j], values[i])

find_optimal_horizon(multi_horizon_results) ==
    IF multi_horizon_results = <<>> THEN <<>>
    ELSE
    LET horizons    == [i \in DOMAIN multi_horizon_results |->
                           multi_horizon_results[i].horizon]
        ig_values   == [i \in DOMAIN multi_horizon_results |->
                           multi_horizon_results[i].information_gain]
        mi_values   == [i \in DOMAIN multi_horizon_results |->
                           multi_horizon_results[i].normalized_mi]
        corr_values == [i \in DOMAIN multi_horizon_results |->
                           FAbs(multi_horizon_results[i].correlation)]
        optimal_ig_idx   == argmax(ig_values)
        optimal_mi_idx   == argmax(mi_values)
        optimal_corr_idx == argmax(corr_values)
    IN  [optimal_horizon_ig   |-> horizons[optimal_ig_idx],
         max_ig               |-> ig_values[optimal_ig_idx],
         optimal_horizon_mi   |-> horizons[optimal_mi_idx],
         max_mi               |-> mi_values[optimal_mi_idx],
         optimal_horizon_corr |-> horizons[optimal_corr_idx],
         max_correlation      |-> corr_values[optimal_corr_idx],
         all_horizons         |-> horizons,
         all_ig               |-> ig_values]

\* A caller holds the result of a multi-horizon scan: the scored horizons
\* in the order supplied, possibly none.
InitOptimal ==
    /\ engines = <<>>
    /\ stream = <<>>
    /\ \E hs \in HorizonLists \cup {<<>>} :
       \E ig \in [DOMAIN hs -> GainValues], mi \in [DOMAIN hs -> GainValues],
          corr \in [DOMAIN hs -> CorrelationValues] :
           calc = [op |-> "find_optimal_horizon", state |-> "called",
                   results |-> [i \in DOMAIN hs |->
                                   [horizon |-> hs[i],
                                    information_gain |-> ig[i],
                                    normalized_mi |-> mi[i],
                                    correlation |-> corr[i]]]]

FindOptimalHorizon ==
    /\ calc.op = "find_optimal_horizon" /\ calc.state = "called"
    /\ calc' = [calc EXCEPT !.state = "returned"]
                 @@ [result |-> find_optimal_horizon(calc.results)]
    /\ UNCHANGED <<engines, stream>>

SpecOptimal == InitOptimal /\ [][FindOptimalHorizon]_vars

(* -------------------------- performance metrics ---------------------- *)
(* calculate_metrics reads the logs of an engine that was fed a stream.    *)
(* The streams move between the prices 100.0 and 200.0, so that every      *)
(* return is a small dyadic multiple of a tenth and the exact rationals    *)
(* stay small.  The Sharpe ratio mean/std * sqrt(252) is irrational; it is *)
(* kept as its sign and its square.                                        *)
(***************************************************************************)

MetricPrices == {1000, 2000}

\* A strong sell, a sell, a neutral and a strong buy signal.
MetricSignals == {-20, -10, 0, 20}

\* np.sqrt(252) squared: the trading days of a year.
TradingDays == 252

RECURSIVE RSum(_)
RSum(xs) == IF xs = <<>> THEN RInt(0) ELSE RAdd(xs[1], RSum(Tail(xs)))

\* The largest / smallest element of a non-empty sequence.
RMaxOf(xs) ==
    CHOOSE x \in {xs[i] : i \in DOMAIN xs} :
        \A i \in DOMAIN xs : ~RLess(x, xs[i])

RMinOf(xs) ==
    CHOOSE x \in {xs[i] : i \in DOMAIN xs} :
        \A i \in DOMAIN xs : ~RLess(xs[i], x)

RAbs(x) == <<Abs(x[1]), x[2]>>

\* Series.cummax()
cummax(series) ==
    [i \in DOMAIN series |-> RMaxOf(SubSeq(series, 1, i))]

\* Mutant: the decline is measured from the highest capital of the whole
\* curve, whether it came before or after.
calculate_max_drawdown_from_top(capital_series) ==
    LET top == RMaxOf(capital_series)
        drawdown == [i \in DOMAIN capital_series |->
                        RMul(RDiv(RSub(capital_series[i], top), top), RInt(100))]
    IN  RAbs(RMinOf(drawdown))

\* BacktestEngine.calculate_max_drawdown
calculate_max_drawdown(capital_series) ==
    LET running == cummax(capital_series)
        drawdown == [i \in DOMAIN capital_series |->
                        RMul(RDiv(RSub(capital_series[i], running[i]),
                                  running[i]),
                             RInt(100))]
    IN  RAbs(RMinOf(drawdown))

\* Series.dropna()
dropna_series(series) == SelectSeq(series, LAMBDA x : x # nan)

\* Series.mean() of a non-empty series.
mean(xs) == RDiv(RSum(xs), RInt(Len(xs)))

\* Series.std() squared: the sample variance (ddof = 1), NaN for fewer
\* than two values.
variance(xs) ==
    IF Len(xs) < 2 THEN nan
    ELSE LET m == mean(xs)
         IN  RDiv(RSum([i \in DOMAIN xs |->
                           RMul(RSub(xs[i], m), RSub(xs[i], m))]),
                  RInt(Len(xs) - 1))

Sign(x) == IF x[1] > 0 THEN 1 ELSE IF x[1] < 0 THEN -1 ELSE 0

\* A Sharpe ratio: NaN, or the number with this sign and this square.
SharpeNaN == [nan |-> TRUE, sign |-> 0, square |-> RInt(0)]

SharpeZero == [nan |-> FALSE, sign |-> 0, square |-> RInt(0)]

\* BacktestEngine.calculate_sharpe_ratio.  returns.std() == 0 is False for
\* a NaN std, and mean / NaN is NaN.
calculate_sharpe_ratio(returns) ==
    IF Len(returns) < 2 THEN SharpeZero
    ELSE LET clean == dropna_series(returns)
             var   == variance(clean)
         IN  IF var = RInt(0) THEN SharpeZero
             ELSE IF var = nan THEN SharpeNaN
             ELSE [nan    |-> FALSE,
                   sign   |-> Sign(mean(clean)),
                   square |-> RDiv(RMul(RMul(mean(clean), mean(clean)),
                                        RInt(TradingDays)),
                                   var)]

\* The loop of calculate_win_rate over trades[1..i] (Python's
\* range(1, len(trades))): <<winning_trades, total_trades>>.
RECURSIVE win_rate_loop(_, _)
win_rate_loop(trades, i) ==
    IF i < 2 THEN <<0, 0>>
    ELSE LET before == win_rate_loop(trades, i - 1)
         IN  IF trades[i].type = "SELL" /\ trades[i - 1].type = "BUY"
             THEN <<before[1] + (IF RLess(trades[i - 1].capital,
                                           trades[i].capital)
                                 THEN 1 ELSE 0),
                    before[2] + 1>>
             ELSE before

\* BacktestEngine.calculate_win_rate
calculate_win_rate(trades) ==
    LET counts == win_rate_loop(trades, Len(trades))
    IN  IF counts[2] = 0 THEN RInt(0)
        ELSE RMul(Rat(counts[1], counts[2]), RInt(100))

\* BacktestEngine.calculate_metrics: the metrics the claims are about (the
\* per-trade statistics it also reports read the same logs).
calculate_metrics(self) ==
    IF engines[self].equity_curve = <<>> THEN <<>>
    ELSE LET capital == [i \in DOMAIN engines[self].equity_curve |->
                            engines[self].equity_curve[i].capital]
             returns == pct_change(capital, 1)
         IN  [total_return |-> total_return(self),
              max_drawdown |-> calculate_max_drawdown(capital),
              sharpe_ratio |-> calculate_sharpe_ratio(returns),
              win_rate     |-> calculate_win_rate(engines[self].trades)]

\* main: one more row is handed to the engine before its metrics are asked for.
FeedMetrics ==
    /\ calc = Idle
    /\ Len(stream) < MaxCurve
    /\ \E price \in MetricPrices, signal \in MetricSignals :
           ExecuteTrade(Len(stream) + 1, price, signal)

\* main: metrics = backtest.calculate_metrics()
CalculateMetrics ==
    /\ calc = Idle
    /\ calc' = [op |-> "calculate_metrics", state |-> "returned",
                result |-> calculate_metrics(1)]
    /\ UNCHANGED <<engines, stream>>

NextMetrics == FeedMetrics \/ CalculateMetrics

SpecMetrics == Init /\ [][NextMetrics]_vars

(* ------------------------------ alignment ----------------------------- *)
(* A series is what the loaders build from the API's answer: rows          *)
(* <<timestamp, value>> with distinct timestamps in the order received     *)
(* (ascending), the value NaN where the answer held null                   *)
(* (df['v'].astype(float)).  A frame is a sequence of rows                 *)
(* [t, values], values holding one entry per joined column.                *)
(* Three places align the price with indicators: main's frame of one       *)
(* indicator's backtest, main's frame of the combined backtest, and the    *)
(* frame of the multi-horizon scan.                                        *)
(***************************************************************************)

\* A value of a series: a number, or NaN.
SeriesValues == {RInt(1), nan}

RECURSIVE Ascending(_)
Ascending(S) ==
    IF S = {} THEN <<>>
    ELSE LET m == CHOOSE x \in S : \A y \in S : x <= y
         IN  <<m>> \o Ascending(S \ {m})

Stamps(series) == {series[i][1] : i \in DOMAIN series}

\* The value of a series at one of its timestamps.
ValueAt(series, t) ==
    LET i == CHOOSE i \in DOMAIN series : series[i][1] = t
    IN  series[i][2]

AllSeries ==
    {[i \in 1..Cardinality(S) |-> <<Ascending(S)[i], f[Ascending(S)[i]]>>] :
        <<S, f>> \in UNION {{S} \X [S -> SeriesValues] : S \in SUBSET (1..MaxStamp)}}

\* A series as a frame of one column.
AsFrame(series) ==
    [i \in DOMAIN series |-> [t |-> series[i][1], values |-> <<series[i][2]>>]]

FrameStamps(df) == {df[i].t : i \in DOMAIN df}

RowAt(df, t) == df[CHOOSE i \in DOMAIN df : df[i].t = t]

\* The columns of a frame for a timestamp it may lack: NaN in each.
ValuesOrNaN(df, width, t) ==
    IF t \in FrameStamps(df) THEN RowAt(df, t).values
    ELSE [k \in 1..width |-> nan]

\* pd.merge(left, right, left_index=True, right_index=True, how=...) of a
\* frame of left_width columns with a frame of one column, both ascending:
\* 'inner' keeps the keys of both, 'outer' the keys of either, in ascending
\* order; no value is looked at.
merge(left, left_width, right, how) ==
    LET keys == IF how = "inner"
                THEN FrameStamps(left) \cap FrameStamps(right)
                ELSE FrameStamps(left) \cup FrameStamps(right)
        index == Ascending(keys)
    IN  [i \in DOMAIN index |->
            [t      |-> index[i],
             values |-> ValuesOrNaN(left, left_width, index[i])
                        \o ValuesOrNaN(right, 1, index[i])]]

\* DataFrame.dropna(): the rows without a NaN in any column.
dropna_rows(df) ==
    SelectSeq(df, LAMBDA r : \A k \in DOMAIN r.values : r.values[k] # nan)

\* main, backtest of one indicator: merged = pd.merge(price_data,
\* indicator_data, ..., how='inner').
merged_frame(price_data, indicator_data) ==
    merge(AsFrame(price_data), 1, AsFrame(indicator_data), "inner")

\* main, combined backtest: combined_df = price_data.copy(); one outer merge
\* per indicator; combined_df.dropna().
RECURSIVE combined_loop(_, _, _)
combined_loop(combined_df, width, indicators) ==
    IF indicators = <<>> THEN combined_df
    ELSE combined_loop(merge(combined_df, width, AsFrame(indicators[1]), "outer"),
                       width + 1, Tail(indicators))

combined_frame(price_data, indicators) ==
    dropna_rows(combined_loop(AsFrame(price_data), 1, indicators))

\* Multi-horizon scan: pd.DataFrame({'indicator': indicator_data,
\* 'price': price_data}).dropna(); the constructor takes the union of the
\* two indexes.
horizon_scan_frame(indicator_data, price_data) ==
    dropna_rows(merge(AsFrame(indicator_data), 1, AsFrame(price_data), "outer"))

\* The price and the indicators are loaded; one of the three places is
\* about to align them (the combined backtest takes one or two indicators).
InitAlign ==
    /\ engines = <<>>
    /\ stream = <<>>
    /\ \E price_data \in AllSeries :
           \/ \E indicator_data \in AllSeries :
              \E op \in {"merged", "multi_horizon_frame", "combined"} :
                  calc = [op |-> op, state |-> "called", price |-> price_data,
                          indicators |-> <<indicator_data>>]
           \/ \E first \in AllSeries, second \in AllSeries :
                  calc = [op |-> "combined", state |-> "called",
                          price |-> price_data,
                          indicators |-> <<first, second>>]

AlignReturn(frame) ==
    /\ calc' = [calc EXCEPT !.state = "returned"] @@ [result |-> frame]
    /\ UNCHANGED <<engines, stream>>

MergeForBacktest ==
    /\ calc.op = "merged" /\ calc.state = "called"
    /\ AlignReturn(merged_frame(calc.price, calc.indicators[1]))

MergeForCombined ==
    /\ calc.op = "combined" /\ calc.state = "called"
    /\ AlignReturn(combined_frame(calc.price, calc.indicators))

FrameForHorizons ==
    /\ calc.op = "multi_horizon_frame" /\ calc.state = "called"
    /\ AlignReturn(horizon_scan_frame(calc.indicators[1], calc.price))

NextAlign == MergeForBacktest \/ MergeForCombined \/ FrameForHorizons

SpecAlign == InitAlign /\ [][NextAlign]_vars

(* --------------------------- fetch_metric_safe ------------------------ *)
(* GlassnodeCoreAnalyzer.fetch_metric_safe(endpoint, params, retry).  The  *)
(* server's answers are fixed beforehand: responses[k] is what the k-th    *)
(* request of the call would meet.  The data of a successful answer is     *)
(* identified by the number of its request; None is 0.  Every request      *)
(* ends (timeout=10), every sleep ends.                                    *)
(***************************************************************************)

\* What a request can meet: status 429, another HTTP error status
\* (raise_for_status raises), an exception of requests.get or of
\* response.json(), a successful answer with data, and a successful answer
\* that is a dict with 'type' == 'metric' (no permission).
Responses == {"429", "http_error", "exception", "success", "permission"}

None == 0

RECURSIVE Pow2(_)
Pow2(k) == IF k = 0 THEN 1 ELSE 2 * Pow2(k - 1)

InitFetch ==
    /\ engines = <<>>
    /\ stream = <<>>
    /\ \E retry \in 0..MaxRetry :
       \E responses \in [1..retry -> Responses] :
           calc = [op |-> "fetch_metric_safe", state |-> "called",
                   retry |-> retry, responses |-> responses,
                   attempt |-> 0, requests |-> 0, sleeps |-> <<>>,
                   result |-> None]

\* Mutant: the answer without permission is retried like a failure.
PermissionOutcomeRetry(c) ==
    [c EXCEPT !.attempt = @ + 1, !.requests = @ + 1]

\* if isinstance(data, dict) and data.get('type') == 'metric': return None
PermissionOutcome(c) ==
    [c EXCEPT !.requests = @ + 1, !.state = "returned", !.result = None]

\* One pass of the loop body: one request and what follows from its answer.
Attempt ==
    /\ calc.op = "fetch_metric_safe" /\ calc.state = "called"
    /\ calc.attempt < calc.retry
    /\ LET attempt  == calc.attempt
           response == calc.responses[calc.requests + 1]
       IN  calc' =
             CASE response = "429" ->
                    [calc EXCEPT !.requests = @ + 1,
                                 !.sleeps = Append(@, [after |-> attempt,
                                                       seconds |-> Pow2(attempt)]),
                                 !.attempt = @ + 1]
               [] response \in {"http_error", "exception"} ->
                    IF attempt = calc.retry - 1
                    THEN [calc EXCEPT !.requests = @ + 1,
                                      !.state = "returned", !.result = None]
                    ELSE [calc EXCEPT !.requests = @ + 1,
                                      !.sleeps = Append(@, [after |-> attempt,
                                                            seconds |-> 1]),
                                      !.attempt = @ + 1]
               [] response = "permission" -> PermissionOutcome(calc)
               [] response = "success" ->
                    [calc EXCEPT !.requests = @ + 1,
                                 !.sleeps = Append(@, [after |-> attempt,
                                                       seconds |-> 1]),
                                 !.state = "returned",
                                 !.result = calc.requests + 1]
    /\ UNCHANGED <<engines, stream>>

\* The loop is exhausted: return None.
Exhausted ==
    /\ calc.op = "fetch_metric_safe" /\ calc.state = "called"
    /\ calc.attempt >= calc.retry
    /\ calc' = [calc EXCEPT !.state = "returned", !.result = None]
    /\ UNCHANGED <<engines, stream>>

NextFetch == Attempt \/ Exhausted

\* The call runs on by itself: no step waits for anything but a request or
\* a sleep, which end.
SpecFetch == InitFetch /\ [][NextFetch]_vars /\ WF_vars(NextFetch)

(* ------------------------------ claims -------------------------------- *)

\* A step of the backtest loop: engine 1 has just been handed a new row.
FedRow == Len(stream') = Len(stream) + 1

\* C1: on every step after the first, the new capital is the old capital
\* times 1 + position_prev * (price / price_prev - 1), position_prev being
\* the position recorded in the previous EquityPoint.
C1_ReturnScaledByPreviousPosition ==
    \A self \in DOMAIN engines :
        LET ec == engines[self].equity_curve
        IN  \A i \in 2..Len(ec) :
                ec[i].capital =
                    RMul(ec[i - 1].capital,
                         RAdd(RInt(1),
                              RMul(Rat(ec[i - 1].position, 10),
                                   RSub(Rat(ec[i].price, ec[i - 1].price),
                                        RInt(1)))))

\* C2: a row whose timestamp is not strictly later than that of the last
\* EquityPoint is rejected: capital, position, trade log and equity curve
\* stay exactly as they were.
C2_NonChronologicalRejected ==
    [][(/\ FedRow
        /\ engines[1].equity_curve # <<>>
        /\ Last(stream').date <= Last(engines[1].equity_curve).date)
       => engines' = engines]_vars

\* C3: the position after a step is 1.0 for s > 1.5, 0.6 for 0.5 < s <= 1.5,
\* 0.0 for s < -1.5, 0.3 for -1.5 <= s < -0.5, and the position before the
\* step for -0.5 <= s <= 0.5.
C3_TargetBands ==
    [][FedRow =>
        LET s == Last(stream').signal
            p == engines[1].position
        IN  /\ s > 15 => engines'[1].position = 10
            /\ (5 < s /\ s <= 15) => engines'[1].position = 6
            /\ s < -15 => engines'[1].position = 0
            /\ (-15 <= s /\ s < -5) => engines'[1].position = 3
            /\ (-5 <= s /\ s <= 5) => engines'[1].position = p]_vars

\* C3 witness: a buy-edge, a sell-edge and a neutral-edge signal have been
\* applied in turn, leaving 0.6, then 0.3, then 0.3 unchanged.
C3_Witness ==
    /\ Len(stream) = 3
    /\ stream[1].signal = 15 /\ stream[2].signal = -15 /\ stream[3].signal = 5
    /\ engines[1].equity_curve[1].position = 6
    /\ engines[1].equity_curve[2].position = 3
    /\ engines[1].position = 3

\* C4: the Trade appended by a call is a BUY exactly when the target
\* position exceeds the position before the call, a SELL exactly when it is
\* smaller and a HOLD exactly when they are equal, and it records the
\* position after the call.
C4_TradeTypeMatchesAdjustment ==
    [][FedRow =>
        LET t      == Last(engines'[1].trades)
            before == engines[1].position
            target == TargetPosition(Last(stream').signal, before)
        IN  /\ t.type \in {"BUY", "SELL", "HOLD"}
            /\ t.type = "BUY" <=> target > before
            /\ t.type = "SELL" <=> target < before
            /\ t.type = "HOLD" <=> target = before
            /\ t.position = engines'[1].position]_vars

\* C4 witness: a log holding a BUY, then a HOLD, then a SELL.
C4_Witness ==
    /\ Len(engines[1].trades) = 3
    /\ engines[1].trades[1].type = "BUY"
    /\ engines[1].trades[2].type = "HOLD"
    /\ engines[1].trades[3].type = "SELL"
    /\ engines[1].trades[3].position = 3

\* C5: a new engine has capital = initial_capital, position 0 and empty
\* logs, and the first call leaves capital at initial_capital whatever the
\* price and the signal.
C5_FreshEngineAndFirstCall ==
    /\ stream = <<>> =>
        /\ engines[1].initial_capital = RInt(DefaultInitialCapital)
        /\ engines[1].capital = engines[1].initial_capital
        /\ engines[1].position = 0
        /\ engines[1].trades = <<>>
        /\ engines[1].equity_curve = <<>>
    /\ Len(stream) = 1 =>
        /\ engines[1].capital = engines[1].initial_capital
        /\ engines[1].equity_curve[1].capital = engines[1].initial_capital

\* C5 witness: the first call, with a strong buy at the higher price.
C5_Witness ==
    /\ Len(stream) = 1
    /\ stream[1].signal = 20 /\ stream[1].price = 1100
    /\ engines[1].position = 10
    /\ engines[1].capital = RInt(DefaultInitialCapital)

ConstantPrice == \A i, j \in 1..Len(stream) : stream[i].price = stream[j].price

\* C6: when every row of the run has the same price, capital equals
\* initial_capital after every step and total_return is 0, whatever the
\* signals.
C6_ConstantPriceNoReturn ==
    ConstantPrice =>
        /\ engines[1].capital = engines[1].initial_capital
        /\ \A i \in 1..Len(engines[1].equity_curve) :
               engines[1].equity_curve[i].capital = engines[1].initial_capital
        /\ total_return(1) = RInt(0)

\* C6 witness: three rows at one price through a full, a reduced and a
\* raised exposure.
C6_Witness ==
    /\ Len(stream) = 3 /\ ConstantPrice
    /\ stream[1].signal = 20 /\ stream[2].signal = -15 /\ stream[3].signal = 15
    /\ engines[1].position = 6
    /\ Len(engines[1].equity_curve) = 3

RECURSIVE CompoundedBuy(_, _)
CompoundedBuy(initial_capital, n) ==
    IF n <= 1 THEN initial_capital
    ELSE RMul(CompoundedBuy(initial_capital, n - 1),
              RAdd(RInt(1),
                   RMul(Rat(6, 10),
                        RSub(Rat(stream[n].price, stream[n - 1].price),
                             RInt(1)))))

ScenarioStream ==
    /\ Len(stream) = 4
    /\ stream[1].price = 1000 /\ stream[2].price = 1100
    /\ stream[3].price = 1210 /\ stream[4].price = 1331
    /\ \A i \in 1..4 : stream[i].signal = 10

\* C8: when every signal s of the stream has 0.5 < s <= 1.5, the position
\* is 0.6 after every step and capital is initial_capital times the product
\* over t = 2..n of 1 + 0.6 * (p_t / p_(t-1) - 1); for prices
\* 100, 110, 121, 133.1 with signal 1 total_return is (1.06^3 - 1) * 100,
\* that is 19.1016.
C8_BuyBandCompounds ==
    /\ (\A i \in 1..Len(stream) : 5 < stream[i].signal /\ stream[i].signal <= 15) =>
        /\ \A i \in 1..Len(engines[1].equity_curve) :
               engines[1].equity_curve[i].position = 6
        /\ stream # <<>> => engines[1].position = 6
        /\ engines[1].capital =
               CompoundedBuy(engines[1].initial_capital, Len(stream))
    /\ ScenarioStream => total_return(1) = Rat(191016, 10000)

\* C8 witness: the scenario's four rows have been processed.
C8_Witness ==
    /\ ScenarioStream
    /\ engines[1].position = 6
    /\ engines[1].capital = Rat(1191016, 100)

\* C9: after n calls both logs hold exactly n entries in call order; a call
\* appends one Trade and one EquityPoint and leaves the earlier entries as
\* they were.
C9_LogsAppendOnly ==
    [][FedRow =>
        LET n  == Len(stream)
            e  == engines[1]
            e2 == engines'[1]
        IN  /\ Len(e2.trades) = n + 1
            /\ Len(e2.equity_curve) = n + 1
            /\ SubSeq(e2.trades, 1, n) = e.trades
            /\ SubSeq(e2.equity_curve, 1, n) = e.equity_curve
            /\ \A i \in 1..(n + 1) :
                   /\ e2.trades[i].date = stream'[i].date
                   /\ e2.trades[i].price = stream'[i].price
                   /\ e2.trades[i].signal = stream'[i].signal
                   /\ e2.equity_curve[i].date = stream'[i].date
                   /\ e2.equity_curve[i].price = stream'[i].price
                   /\ e2.equity_curve[i].signal = stream'[i].signal]_vars

\* C9 witness: three calls, one of them a HOLD, and three entries in each log.
C9_Witness ==
    /\ Len(stream) = 3
    /\ Len(engines[1].trades) = 3
    /\ Len(engines[1].equity_curve) = 3
    /\ \E i \in 1..3 : engines[1].trades[i].type = "HOLD"

\* C10: the Trade appended at a step records the capital after that step's
\* return, the capital of the EquityPoint appended at the same step.
C10_TradeRecordsCapitalAfter ==
    \A self \in DOMAIN engines :
        \A i \in 1..Len(engines[self].trades) :
            engines[self].trades[i].capital = engines[self].equity_curve[i].capital

\* C11: every run of main uses its own newly constructed engine: a run
\* starts from initial capital, position 0 and empty logs, what a run logs
\* comes from its own rows only, and no step of one run changes the
\* capital, position, Trades or EquityPoints of another run.
C11_RunsOwnTheirEngine ==
    [][/\ \A r \in 1..Len(engines) :
              r # Len(engines') => engines'[r] = engines[r]
       /\ Len(engines') > Len(engines) =>
              /\ Last(engines').capital = RInt(DefaultInitialCapital)
              /\ Last(engines').initial_capital = RInt(DefaultInitialCapital)
              /\ Last(engines').position = 0
              /\ Last(engines').trades = <<>>
              /\ Last(engines').equity_curve = <<>>
       /\ engines' # <<>> =>
              LET e == Last(engines')
              IN  /\ Len(e.trades) = Len(stream')
                  /\ Len(e.equity_curve) = Len(stream')
                  /\ \A i \in 1..Len(stream') :
                         /\ e.trades[i].price = stream'[i].price
                         /\ e.trades[i].signal = stream'[i].signal
                         /\ e.equity_curve[i].price = stream'[i].price
                  /\ stream' # <<>> =>
                         e.trades[1].capital = RInt(DefaultInitialCapital)]_vars

\* C11 witness: a second run has processed its rows after a first run that
\* ended invested with changed capital, and holds only its own rows.
C11_Witness ==
    /\ Len(engines) = 2
    /\ Len(engines[1].trades) = 2
    /\ engines[1].capital # RInt(DefaultInitialCapital)
    /\ engines[1].position = 10
    /\ Len(engines[2].trades) = 2
    /\ Len(stream) = 2
    /\ engines[2].capital = RInt(DefaultInitialCapital)

Returned(op) == calc.op = op /\ calc.state = "returned"

\* C12: generate_signal returns an integer in {-2, -1, 0, 1, 2} for every
\* value and every indicator name, and 0 for every value when the name has
\* no threshold table.
C12_SignalRangeAndUnknownNeutral ==
    Returned("generate_signal") =>
        /\ calc.result \in {-2, -1, 0, 1, 2}
        /\ calc.indicator \notin {"SOPR", "MVRV", "NUPL", "NVT", "Puell"} =>
               calc.result = 0

\* C12 witness: a value below SOPR's strong_buy breakpoint, which a
\* registered name turns into +2, came back as 0 for the unregistered name.
C12_Witness ==
    /\ Returned("generate_signal")
    /\ calc.indicator = "RSI"
    /\ calc.value = 94
    /\ calc.result = 0

\* The signal the normal zone-to-signal mapping gives value under table T.
NormalZoneSignal(value, T) ==
    CASE value <= T.strong_buy                           -> 2
      [] T.strong_buy < value /\ value <= T.buy          -> 1
      [] T.buy < value /\ value <= T.neutral_high        -> 0
      [] T.neutral_high < value /\ value <= T.sell       -> -1
      [] OTHER                                           -> -2

Weighted(signals, name, w) == IF name \in DOMAIN signals THEN w * signals[name] ELSE 0

\* w for a name present in the dictionary, 0 for an absent one.
Present(signals, name, w) == IF name \in DOMAIN signals THEN w ELSE 0

\* C14: generate_composite_signal returns sum(w_i * s_i) / sum(w_i) over
\* exactly the indicators present in its input that have a weight (MVRV
\* 0.35, NUPL 0.25, SOPR 0.20, NVT 0.10, Puell 0.10); with input signals in
\* -2..2 the result lies in [-2, 2]; with no weighted indicator present the
\* result is 0.
C14_CompositeIsRenormalizedMean ==
    Returned("generate_composite_signal") =>
        LET sig == calc.signals
            sw  == Present(sig, "MVRV", 35) + Present(sig, "NUPL", 25)
                   + Present(sig, "SOPR", 20) + Present(sig, "NVT", 10)
                   + Present(sig, "Puell", 10)
            sws == Weighted(sig, "MVRV", 35) + Weighted(sig, "NUPL", 25)
                   + Weighted(sig, "SOPR", 20) + Weighted(sig, "NVT", 10)
                   + Weighted(sig, "Puell", 10)
            r   == calc.result
        IN  /\ r[2] > 0
            /\ sw > 0 => r[1] * sw = sws * r[2]
            /\ sw = 0 => r = RInt(0)
            /\ ~RLess(r, RInt(-2)) /\ ~RLess(RInt(2), r)

\* C14 witness: MVRV at +2 and NVT at -1 are present with an unweighted
\* name, NUPL, SOPR and Puell are absent: (0.35*2 - 0.10*1) / 0.45 = 4/3.
C14_Witness ==
    /\ Returned("generate_composite_signal")
    /\ DOMAIN calc.signals = {"MVRV", "NVT", "RSI"}
    /\ calc.signals["MVRV"] = 2 /\ calc.signals["NVT"] = -1
    /\ calc.signals["RSI"] = -2
    /\ calc.result = <<4, 3>>

\* x <= y for entropy values.
ELessEq(x, y) == ~EPositive(ESub(x, y))

\* C15: for every scored pair of discretized sequences the reported
\* information_gain lies between 0 and the reported target entropy H(Y),
\* in InformationGainAnalyzer.calculate_information_gain and in the
\* multi-horizon scorer alike.
C15_GainBetweenZeroAndTargetEntropy ==
    /\ Returned("calculate_information_gain") =>
           /\ ELessEq(EZero, calc.result.information_gain)
           /\ ELessEq(calc.result.information_gain, calc.result.target_entropy)
    /\ Returned("score_horizon") =>
           /\ ELessEq(EZero, calc.result.information_gain)
           /\ ELessEq(calc.result.information_gain, calc.result.entropy_price)

Scanned(op) == calc.op = op /\ calc.state = "returned"

\* C17: in the result map of a horizon scan, a horizon with fewer than the
\* scan's minimum number of valid rows (rows with a price horizon steps
\* ahead; a joined frame below the minimum has none that count) is absent;
\* it never appears with zero scores.
C17_TooFewRowsOmitted ==
    /\ Scanned("analyze_predictive_information") =>
           \A i \in DOMAIN calc.results :
               Len(calc.price) - calc.results[i].horizon >= MinRows
    /\ Scanned("calculate_information_gain_multi_horizon") =>
           \A i \in DOMAIN calc.results :
               /\ Len(calc.price) >= MinRows
               /\ Len(calc.price) - calc.results[i].horizon >= MinScoredRows

\* C18 as stated: every horizon in the result of
\* calculate_information_gain_multi_horizon has sample_size >= 100, counted
\* after the rows without a price horizon steps ahead were removed.
C18_SampleSizeAtLeastMinRows ==
    Scanned("calculate_information_gain_multi_horizon") =>
        \A i \in DOMAIN calc.results : calc.results[i].sample_size >= MinRows

\* C18 amended: every horizon in that result comes from a joined frame of at
\* least 100 rows and has sample_size = N - horizon >= 50.
C18_FrameAtLeastMinRowsSampleAtLeastMinScored ==
    Scanned("calculate_information_gain_multi_horizon") =>
        \A i \in DOMAIN calc.results :
            /\ Len(calc.price) >= MinRows
            /\ calc.results[i].sample_size
                   = Len(calc.price) - calc.results[i].horizon
            /\ calc.results[i].sample_size >= MinScoredRows

\* A horizon was scored on fewer than 100 rows.
C18_Witness ==
    /\ Scanned("calculate_information_gain_multi_horizon")
    /\ \E i \in DOMAIN calc.results :
           /\ calc.results[i].sample_size < MinRows
           /\ calc.results[i].sample_size >= MinScoredRows

\* price[t + h] / price[t] - 1 of the scanned frame.
FutureReturn(t, h) == RSub(RDiv(calc.price[t + h], calc.price[t]), RInt(1))

\* C19: for a horizon h over N rows the rows that are scored are exactly
\* the first N - h, each with target price[t+h]/price[t] - 1; none of the
\* last h rows is scored (with a return of 0 or otherwise).
C19_FirstRowsScoredWithFutureReturn ==
    (calc.op \in {"analyze_predictive_information",
                  "calculate_information_gain_multi_horizon"}) =>
        \A i \in DOMAIN calc.results :
            LET h == calc.results[i].horizon
                scored == calc.results[i].scored
            IN  scored # <<>> =>
                    /\ Len(scored) = Len(calc.price) - h
                    /\ \A t \in DOMAIN scored :
                           scored[t] = <<t, FutureReturn(t, h)>>

\* The multi-horizon scan has scored a horizon of 30 rows or more on a frame
\* whose price moves.
C19_Witness ==
    /\ Scanned("calculate_information_gain_multi_horizon")
    /\ \E i \in DOMAIN calc.results :
           /\ calc.results[i].horizon >= 30
           /\ Len(calc.results[i].scored) >= MinRows
           /\ \E t \in DOMAIN calc.results[i].scored :
                  calc.results[i].scored[t][2] # RInt(0)

\* Horizon h has the largest value among the scored horizons and is the
\* smallest horizon that has it (undefined values are no maximum, unless
\* every value is undefined).
SmallestMaximal(h, values, horizons) ==
    \E i \in DOMAIN values :
        /\ horizons[i] = h
        /\ values[i] = nan => \A j \in DOMAIN values : values[j] = nan
        /\ \A j \in DOMAIN values :
               /\ values[j] # nan => ~RLess(values[i], values[j])
               /\ values[j] = values[i] => h <= horizons[j]

\* C20: for information_gain, normalized mutual information and
\* |correlation| find_optimal_horizon returns a scored horizon whose value
\* is the maximum over the scored horizons, the smallest such horizon on an
\* exact tie, in whatever order the horizons were supplied.
C20_ArgmaxSmallestHorizonOnTies ==
    (Returned("find_optimal_horizon") /\ calc.results # <<>>) =>
        LET rs == calc.results
            horizons == [i \in DOMAIN rs |-> rs[i].horizon]
        IN  /\ SmallestMaximal(calc.result.optimal_horizon_ig,
                   [i \in DOMAIN rs |-> rs[i].information_gain], horizons)
            /\ SmallestMaximal(calc.result.optimal_horizon_mi,
                   [i \in DOMAIN rs |-> rs[i].normalized_mi], horizons)
            /\ SmallestMaximal(calc.result.optimal_horizon_corr,
                   [i \in DOMAIN rs |-> FAbs(rs[i].correlation)], horizons)

\* The positions execute_trade can set: 0, 0.3, 0.6 and 1.0, in tenths.
BandPositions == {0, 3, 6, 10}

\* C26: after any sequence of execute_trade calls on a fresh engine the
\* position is one of 0, 0.3, 0.6, 1.0, and so is the position of every
\* Trade and every EquityPoint.
C26_PositionsAreBandTargets ==
    LET e == engines[1]
    IN  /\ e.position \in BandPositions
        /\ \A i \in DOMAIN e.trades : e.trades[i].position \in BandPositions
        /\ \A i \in DOMAIN e.equity_curve :
               e.equity_curve[i].position \in BandPositions

\* A stream has taken the engine through 0.3, 0.6 and 1.0.
C26_Witness ==
    LET e == engines[1]
    IN  {e.equity_curve[i].position : i \in DOMAIN e.equity_curve} = {3, 6, 10}

\* The position before trade i of engine 1.
PositionBefore(i) ==
    IF i = 1 THEN 0 ELSE engines[1].equity_curve[i - 1].position

\* -1.5 <= s < -0.5, in tenths.
InSellBand(signal) == -15 <= signal /\ signal < -5

\* C28: a signal in the sell band sets the position to 0.3 whatever it was
\* before; when the position before was below 0.3 the Trade is a BUY.
C28_SellBandBuysUpToTarget ==
    \A i \in DOMAIN engines[1].trades :
        LET trade == engines[1].trades[i]
        IN  InSellBand(trade.signal) =>
                /\ trade.position = 3
                /\ engines[1].equity_curve[i].position = 3
                /\ PositionBefore(i) < 3 => trade.type = "BUY"

\* A fresh engine was handed a sell-band signal, and a sell-band signal has
\* also cut a larger position.
C28_Witness ==
    /\ Len(engines[1].trades) >= 3
    /\ InSellBand(engines[1].trades[1].signal)
    /\ engines[1].trades[1].type = "BUY"
    /\ \E i \in DOMAIN engines[1].trades :
           /\ InSellBand(engines[1].trades[i].signal)
           /\ engines[1].trades[i].type = "SELL"

\* C27: with a positive initial_capital and positive prices, capital is
\* strictly positive after every execute_trade call, for every signal
\* stream.
C27_CapitalStaysPositive ==
    /\ RLess(RInt(0), engines[1].capital)
    /\ \A i \in DOMAIN engines[1].equity_curve :
           RLess(RInt(0), engines[1].equity_curve[i].capital)

\* calculate_metrics has returned the metrics of a non-empty equity curve.
MetricsReturned == Returned("calculate_metrics") /\ calc.result # <<>>

\* The capital values c_1..c_n of the equity curve of engine 1.
Capitals ==
    [i \in DOMAIN engines[1].equity_curve |-> engines[1].equity_curve[i].capital]

\* (c_i - c_j) / c_i * 100
Decline(i, j) ==
    RMul(RDiv(RSub(Capitals[i], Capitals[j]), Capitals[i]), RInt(100))

\* C23: calculate_max_drawdown returns the maximum over all i <= j of
\* (c_i - c_j)/c_i * 100, a non-negative percentage that is 0 exactly when
\* capital never falls below its running maximum.
C23_MaxDrawdownIsLargestDecline ==
    MetricsReturned =>
        LET n  == Len(Capitals)
            md == calc.result.max_drawdown
        IN  /\ \E i \in 1..n : \E j \in i..n : md = Decline(i, j)
            /\ \A i \in 1..n : \A j \in i..n : ~RLess(md, Decline(i, j))
            /\ ~RLess(md, RInt(0))
            /\ md = RInt(0) <=>
                   \A i \in 1..n : \A j \in i..n :
                       ~RLess(Capitals[j], Capitals[i])

\* The capital fell and then rose above its earlier peak.
C23_Witness ==
    /\ MetricsReturned
    /\ Len(Capitals) = 3
    /\ RLess(Capitals[2], Capitals[1])
    /\ RLess(Capitals[1], Capitals[3])
    /\ calc.result.max_drawdown = Decline(1, 2)

\* C24: calculate_sharpe_ratio returns 0 when the equity curve has 1 or 2
\* points (fewer than 2 daily returns) or the daily returns have standard
\* deviation 0, and never returns NaN.
C24_SharpeZeroOnDegenerateReturns ==
    MetricsReturned =>
        LET n == Len(Capitals)
            returns == [i \in 1..(n - 1) |->
                           RSub(RDiv(Capitals[i + 1], Capitals[i]), RInt(1))]
        IN  /\ ~calc.result.sharpe_ratio.nan
            /\ n <= 2 => calc.result.sharpe_ratio = SharpeZero
            /\ (\A i, j \in 1..(n - 1) : returns[i] = returns[j])
                   => calc.result.sharpe_ratio = SharpeZero

\* The BUY-to-SELL round-trips of the trade log of engine 1, as pairs
\* <<index of the BUY, index of the SELL>>: only HOLD trades lie between.
RoundTrips ==
    LET trades == engines[1].trades
    IN  {p \in (DOMAIN trades) \X (DOMAIN trades) :
            /\ p[1] < p[2]
            /\ trades[p[1]].type = "BUY"
            /\ trades[p[2]].type = "SELL"
            /\ \A k \in (p[1] + 1)..(p[2] - 1) : trades[k].type = "HOLD"}

\* C25: calculate_win_rate returns 100 times the fraction of the round-trips
\* whose capital at the SELL is higher than at the BUY, and 0 when the log
\* has no round-trip.
C25_WinRateOverRoundTrips ==
    MetricsReturned =>
        LET trades == engines[1].trades
            wins == {p \in RoundTrips :
                        RLess(trades[p[1]].capital, trades[p[2]].capital)}
        IN  calc.result.win_rate =
                IF RoundTrips = {} THEN RInt(0)
                ELSE RMul(Rat(Cardinality(wins), Cardinality(RoundTrips)),
                          RInt(100))

Aligned == calc.op \in {"merged", "combined", "multi_horizon_frame"}
           /\ calc.state = "returned"

\* The timestamps that have a non-missing value in the price and in every
\* indicator handed to the alignment.
CommonStamps ==
    {t \in Stamps(calc.price) :
        /\ ValueAt(calc.price, t) # nan
        /\ \A k \in DOMAIN calc.indicators :
               /\ t \in Stamps(calc.indicators[k])
               /\ ValueAt(calc.indicators[k], t) # nan}

\* C21: the aligned frame holds exactly the timestamps present with a
\* non-missing value in every input, in ascending order, so it has at most
\* as many rows as the shortest input; with no common timestamp it is empty.
C21_AlignedFrameIsCommonStamps ==
    Aligned =>
        /\ [i \in DOMAIN calc.result |-> calc.result[i].t] = Ascending(CommonStamps)
        /\ Len(calc.result) <= Len(calc.price)
        /\ \A k \in DOMAIN calc.indicators :
               Len(calc.result) <= Len(calc.indicators[k])
        /\ CommonStamps = {} => calc.result = <<>>

\* generate_signal for a registered indicator whose table is replaced by T.
SignalUnderTable(value, indicator, T) ==
    IF indicator = "NVT" THEN nvt_signal(value, T) ELSE normal_signal(value, T)

\* C29: for a registered indicator with table T generate_signal(v) is +2
\* for v <= strong_buy, +1 up to buy, 0 up to neutral_high, -1 up to sell
\* and -2 above sell; it is non-increasing in v, and the strong_sell
\* breakpoint never changes the result.
C29_ZonesOfRegisteredIndicators ==
    (Returned("generate_signal") /\ calc.indicator \in DOMAIN thresholds) =>
        LET T == thresholds[calc.indicator]
        IN  /\ calc.result = NormalZoneSignal(calc.value, T)
            /\ \A w \in SignalValues :
                   w >= calc.value =>
                       generate_signal(w, calc.indicator) <= calc.result
            /\ \A b \in SignalValues :
                   SignalUnderTable(calc.value, calc.indicator,
                                    [T EXCEPT !.strong_sell = b]) = calc.result

\* SOPR between its sell (1.05) and strong_sell (1.08) breakpoints came
\* back as -2.
C29_Witness ==
    /\ Returned("generate_signal")
    /\ calc.indicator = "SOPR"
    /\ calc.value = 106
    /\ calc.result = -2

\* The number of the first request whose answer is one of kinds, 0 if the
\* retry answers hold none.
FirstAnswer(kinds) ==
    LET hits == {k \in DOMAIN calc.responses : calc.responses[k] \in kinds}
    IN  IF hits = {} THEN 0 ELSE CHOOSE k \in hits : \A j \in hits : k <= j

Fetched == calc.op = "fetch_metric_safe" /\ calc.state = "returned"

\* Every 429 met was followed by a sleep of 2^k seconds, k the attempt
\* (from 0) that met it.
BackoffDoubles ==
    \A k \in 1..calc.requests :
        calc.responses[k] = "429" =>
            \E i \in DOMAIN calc.sleeps :
                /\ calc.sleeps[i].after = k - 1
                /\ calc.sleeps[i].seconds = Pow2(k - 1)

\* C30 as stated: at most retry requests are made; the call returns the
\* data of the first answer that is successful and not a permission
\* answer, and None when no attempt met one; a 429 on attempt k is followed
\* by a wait of 2^k seconds.
C30_FirstSuccessfulDataReturned ==
    /\ calc.requests <= calc.retry
    /\ BackoffDoubles
    /\ Fetched => calc.result = FirstAnswer({"success"})

\* What a returned call must have done: the first answer that is a success
\* or a permission answer decides, and no request follows it.
DecidedByFirstFinalAnswer ==
    LET d == FirstAnswer({"success", "permission"})
    IN  /\ calc.result = IF d # 0 /\ calc.responses[d] = "success"
                         THEN d ELSE None
        /\ calc.requests = IF d # 0 THEN d ELSE calc.retry

\* C30 amended: the call terminates after at most retry requests; it
\* returns the data of the first successful answer unless a permission
\* answer comes before it, a permission answer ends the call at once with
\* None, and None is returned when every attempt was rate-limited or
\* failed; a 429 on attempt k is followed by a wait of 2^k seconds.
C30_TerminatesDecidedByFirstFinalAnswer ==
    /\ [](/\ calc.requests <= calc.retry
          /\ BackoffDoubles
          /\ Fetched => DecidedByFirstFinalAnswer)
    /\ <>Fetched

\* A rate-limited attempt, then a permission answer with a successful
\* answer still to come: the call returned None after two requests and one
\* wait of one second.
C30_Witness ==
    /\ Fetched
    /\ calc.retry = 3
    /\ calc.responses = <<"429", "permission", "success">>
    /\ calc.requests = 2
    /\ calc.result = None
    /\ calc.sleeps = <<[after |-> 0, seconds |-> 1]>>

Discretized == calc.op \in {"discretize_information_gain",
                            "discretize_multi_horizon"}
               /\ calc.state = "returned"

\* C22: when the quantile discretization of a sequence leaves fewer than
\* the configured number of bins, the score result reports the number of
\* bins actually used (an effective_bins value or a warning); the
\* reduction is never silent.
C22_ReducedBinsReported ==
    Discretized =>
        ((qcut_bins(calc.indicator, n_bins) < n_bins
          \/ qcut_bins(calc.target, n_bins) < n_bins)
            => \/ "effective_bins" \in calc.keys
               \/ "warning" \in calc.keys
               \/ calc.printed # <<>>)

====
